---- MODULE Spec2Model ----
(***************************************************************************)
(* clang_delta "reduce-array-dim" pass (ReduceArrayDim.cpp).               *)
(*                                                                         *)
(* The pass is driven by the host front end:                               *)
(*   HandleTopLevelDecl   - collection visitor, addOneVar per VarDecl      *)
(*   HandleTranslationUnit- instance check, then the rewrite traversal     *)
(*   VisitVarDecl         - rewrite visitor, rewriteOneVarDecl on target   *)
(*   VisitArraySubscriptExpr - rewrite visitor, handleOneArraySubscriptExpr*)
(*                          on each subscript node, outermost first        *)
(*                                                                         *)
(* The translation unit is the input.  Its variable declarations are       *)
(* recorded in tu as the collection visitor meets them; the parts of the   *)
(* input the collection phase never inspects (the extents and inner array  *)
(* layers of a declaration, the subscript expressions, the content of the  *)
(* never-assigned ArraySz) are drawn when the rewrite traversal first      *)
(* inspects them.                                                          *)
(***************************************************************************)
EXTENDS Integers, Sequences, FiniteSets

VARIABLES
  TransformationCounter, \* requested instance number (driver input)
  QueryInstanceOnly,     \* driver flag: only count instances
  ValidInstanceNum,      \* number of eligible declarations counted
  VisitedVarDecls,       \* set of canonical declarations already counted
  TheVarDecl,            \* canonical target declaration, NULL if none
  ArraySz,               \* extent kept for rewriting subscripts
  TransError,            \* outcome reported to the driver
  pc,                    \* "collect", "rewrite", "done", "abort"
  assertMsg,             \* message of the TransAssert that failed
  tu,                    \* VarDecl nodes of the translation unit, in order
  targetTy,              \* array layers of the target entity (<<>> = not inspected yet)
  pos,                   \* rewrite traversal: index in tu of the next VarDecl
  declOut,               \* per VarDecl of tu: bracket texts after the edit (<<>> = untouched)
  ase,                   \* subscript chain the traversal is at
  idx,                   \* its index expressions with the edits made to them
  szWrites,              \* history: number of assignments to ArraySz
  szReads,               \* history: extents read by subscript rewrites
  readUnassigned,        \* history: a subscript rewrite read ArraySz before any assignment
  declsLeft              \* input budget: VarDecl nodes still to come

vars == <<TransformationCounter, QueryInstanceOnly, ValidInstanceNum,
          VisitedVarDecls, TheVarDecl, ArraySz, TransError, pc, assertMsg,
          tu, targetTy, pos, declOut, ase, idx, szWrites, szReads,
          readUnassigned, declsLeft>>

-----------------------------------------------------------------------------
(* Bounds of the model *)

MaxDecls == 2     \* VarDecl nodes in the translation unit
MaxDim == 3       \* array layers of a declaration
MaxExtent == 3    \* extents are 2..MaxExtent

Vars == 1..2                       \* canonical entities
Extents == 2..MaxExtent
Literals == {1}                    \* values of literal index expressions
Counters == 0..(MaxDecls + 1)      \* instance numbers the driver can pass

\* the declarations and accesses of the documented examples:
\* int a[2][3][4] with a[1][2][3], and int a[][3] with a[5][2]
DocNodes == [canon : {1}, dim : 2..3, outer : {"Constant", "Incomplete"}]
DocExtents == {3, 4}
DocLiterals == {1, 2, 3, 5}

NULL == 0
Unassigned == -1  \* ArraySz has not been assigned nor read yet

\* what the never-assigned ArraySz can hold
IndeterminateSz == {0, MaxExtent}

-----------------------------------------------------------------------------
(* Types *)

ConstantDim(n) == [k |-> "Constant", sz |-> n]
IncompleteDim == [k |-> "Incomplete", sz |-> 0]
VariableDim == [k |-> "Variable", sz |-> 0]
DependentSizedDim == [k |-> "DependentSized", sz |-> 0]
UninspectedDim == [k |-> "Uninspected", sz |-> 0]

OuterKinds == {"Constant", "Incomplete", "Variable", "DependentSized"}

\* inner layers cannot be incomplete (array of incomplete type)
InnerDims(E) == {ConstantDim(n) : n \in E} \cup {VariableDim, DependentSizedDim}

\* a VarDecl node as the collection visitor sees it: canonical entity,
\* number of array layers (0: not an array), kind of the outermost layer
VarDeclNodes(D) ==
  [canon : Vars, dim : {0}, outer : {"None"}]
    \cup [canon : Vars, dim : 1..D, outer : OuterKinds]

\* all declarations of one entity have compatible types: the same layers,
\* except that the outermost extent may be left out
Compatible(a, b) ==
  /\ a.dim = b.dim
  /\ \/ a.outer = b.outer
     \/ {a.outer, b.outer} = {"Constant", "Incomplete"}

\* the last two layers <<second-to-last, last>> an entity declared as VD can
\* turn out to have; the second-to-last of a two-dimensional array is its
\* outermost layer, given here with the extent of the completed type
TypesOf(VD, E) ==
  IF VD.dim < 2 THEN {<<>>}
  ELSE {t \in [1..2 -> InnerDims(E)] :
          VD.dim = 2 =>
            IF VD.outer \in {"Constant", "Incomplete"}
            THEN t[1].k = "Constant" ELSE t[1].k = VD.outer}

-----------------------------------------------------------------------------
(* Helpers of the Transformation base class *)

\* number of array layers of a declaration's type
getArrayDimension(VD) == VD.dim

\* the layers of a declaration's type, outermost first.  Ty gives the last
\* two; the layers above them are never inspected by the pass
getArrayDimensionAndTypes(VD, Ty) ==
  [i \in 1..VD.dim |->
     IF i = VD.dim THEN Ty[2]
     ELSE IF i = VD.dim - 1
          THEN (IF i = 1 /\ VD.outer = "Incomplete" THEN IncompleteDim ELSE Ty[1])
          ELSE UninspectedDim]

\* extents and indices of the model stay far below 2^31: unsigned and int
\* arithmetic is exact on them
getConstArraySize(L) == L.sz

\* text between a bracket pair: the original text of the i-th pair of the
\* declaration, or a number written by the pass
OrigText(i) == [txt |-> "orig", val |-> i]
NumText(n) == [txt |-> "num", val |-> n]

\* one bracket pair per layer, found left to right after the declared name
getBracketLocPairs(Dim) == [i \in 1..Dim |-> OrigText(i)]

-----------------------------------------------------------------------------
(* State after construction and Initialize *)

NoChain == [v |-> NULL, base |-> "None", len |-> 0, node |-> 0]

InitWith(decls) ==
  /\ TransformationCounter \in Counters
  /\ QueryInstanceOnly \in BOOLEAN
  /\ ValidInstanceNum = 0
  /\ VisitedVarDecls = {}
  /\ TheVarDecl = NULL
  /\ ArraySz = Unassigned
  /\ TransError = "TransSuccess"
  /\ pc = "collect"
  /\ assertMsg = "none"
  /\ tu = <<>>
  /\ targetTy = <<>>
  /\ pos = 0
  /\ declOut = <<>>
  /\ ase = NoChain
  /\ idx = <<>>
  /\ szWrites = 0
  /\ szReads = {}
  /\ readUnassigned = FALSE
  /\ declsLeft = decls

Init == InitWith(MaxDecls)

-----------------------------------------------------------------------------
(* Collection phase *)

\* variant: redeclarations of a counted entity are counted again
addOneVar_NoDedup(VD) ==
  IF VD.dim = 0
  THEN UNCHANGED <<VisitedVarDecls, ValidInstanceNum, TheVarDecl>>
  ELSE IF getArrayDimension(VD) <= 1
  THEN UNCHANGED <<VisitedVarDecls, ValidInstanceNum, TheVarDecl>>
  ELSE IF VD.outer = "DependentSized" \/ VD.outer = "Variable"
  THEN UNCHANGED <<VisitedVarDecls, ValidInstanceNum, TheVarDecl>>
  ELSE /\ VisitedVarDecls' = VisitedVarDecls \cup {VD.canon}
       /\ ValidInstanceNum' = ValidInstanceNum + 1
       /\ TheVarDecl' = IF TransformationCounter = ValidInstanceNum + 1
                        THEN VD.canon ELSE TheVarDecl

addOneVar(VD) ==
  IF VD.dim = 0
  THEN UNCHANGED <<VisitedVarDecls, ValidInstanceNum, TheVarDecl>>
  ELSE IF getArrayDimension(VD) <= 1
  THEN UNCHANGED <<VisitedVarDecls, ValidInstanceNum, TheVarDecl>>
  ELSE IF VD.outer = "DependentSized" \/ VD.outer = "Variable"
  THEN UNCHANGED <<VisitedVarDecls, ValidInstanceNum, TheVarDecl>>
  ELSE IF VD.canon \in VisitedVarDecls
  THEN UNCHANGED <<VisitedVarDecls, ValidInstanceNum, TheVarDecl>>
  ELSE /\ VisitedVarDecls' = VisitedVarDecls \cup {VD.canon}
       /\ ValidInstanceNum' = ValidInstanceNum + 1
       /\ TheVarDecl' = IF TransformationCounter = ValidInstanceNum + 1
                        THEN VD.canon ELSE TheVarDecl

Declared(s) == {s[i].canon : i \in 1..Len(s)}

\* a VarDecl node the translation unit can continue with: a redeclaration
\* compatible with the earlier ones, or the next new entity
WellFormedDecl(VD) ==
  /\ VD.canon \in Declared(tu) \cup {Cardinality(Declared(tu)) + 1}
  /\ \A i \in 1..Len(tu) : tu[i].canon = VD.canon => Compatible(tu[i], VD)

\* the collection visitor reaches VarDecl node VD
HandleTopLevelDecl(VD) ==
  /\ pc = "collect"
  /\ declsLeft > 0
  /\ WellFormedDecl(VD)
  /\ addOneVar(VD)
  /\ tu' = Append(tu, VD)
  /\ declOut' = Append(declOut, <<>>)
  /\ declsLeft' = declsLeft - 1
  /\ UNCHANGED <<TransformationCounter, QueryInstanceOnly, ArraySz, TransError,
                 pc, assertMsg, targetTy, pos, ase, idx, szWrites, szReads,
                 readUnassigned>>

-----------------------------------------------------------------------------
(* HandleTranslationUnit: up to the start of the rewrite traversal *)

\* variant: the instance check lets one instance too many through
HandleTranslationUnit_OffByOne ==
  /\ pc = "collect"
  /\ IF QueryInstanceOnly
     THEN /\ pc' = "done"
          /\ UNCHANGED <<TransError, assertMsg, pos>>
     ELSE IF TransformationCounter > ValidInstanceNum + 1
     THEN /\ TransError' = "TransMaxInstanceError"
          /\ pc' = "done"
          /\ UNCHANGED <<assertMsg, pos>>
     ELSE IF TheVarDecl = NULL
     THEN /\ pc' = "abort"
          /\ assertMsg' = "NULL TheVarDecl!"
          /\ UNCHANGED <<TransError, pos>>
     ELSE /\ pc' = "rewrite"
          /\ pos' = 1
          /\ UNCHANGED <<TransError, assertMsg>>
  /\ UNCHANGED <<TransformationCounter, QueryInstanceOnly, ValidInstanceNum,
                 VisitedVarDecls, TheVarDecl, ArraySz, tu, targetTy, declOut,
                 ase, idx, szWrites, szReads, readUnassigned, declsLeft>>

HandleTranslationUnit ==
  /\ pc = "collect"
  /\ IF QueryInstanceOnly
     THEN /\ pc' = "done"
          /\ UNCHANGED <<TransError, assertMsg, pos>>
     ELSE IF TransformationCounter > ValidInstanceNum
     THEN /\ TransError' = "TransMaxInstanceError"
          /\ pc' = "done"
          /\ UNCHANGED <<assertMsg, pos>>
     ELSE IF TheVarDecl = NULL
     THEN /\ pc' = "abort"
          /\ assertMsg' = "NULL TheVarDecl!"
          /\ UNCHANGED <<TransError, pos>>
     ELSE /\ pc' = "rewrite"
          /\ pos' = 1
          /\ UNCHANGED <<TransError, assertMsg>>
  /\ UNCHANGED <<TransformationCounter, QueryInstanceOnly, ValidInstanceNum,
                 VisitedVarDecls, TheVarDecl, ArraySz, tu, targetTy, declOut,
                 ase, idx, szWrites, szReads, readUnassigned, declsLeft>>

\* end of the traversal: the diagnostics engine may have recorded an error
TraversalEnd(hasErrorOccurred) ==
  /\ pc = "rewrite"
  /\ pos > Len(tu)
  /\ pc' = "done"
  /\ TransError' = IF hasErrorOccurred THEN "TransInternalError" ELSE TransError
  /\ ase' = NoChain
  /\ idx' = <<>>
  /\ UNCHANGED <<TransformationCounter, QueryInstanceOnly, ValidInstanceNum,
                 VisitedVarDecls, TheVarDecl, ArraySz, assertMsg, tu, targetTy,
                 pos, declOut, szWrites, szReads, readUnassigned, declsLeft>>

-----------------------------------------------------------------------------
(* Rewrite traversal: declarations *)

Abort(msg) ==
  /\ pc' = "abort"
  /\ assertMsg' = msg

RemoveLast(s) == SubSeq(s, 1, Len(s) - 1)

\* variant: the sum of the two extents is written
MergedExtentText_Sum(LastSz, Sz) == NumText(LastSz + Sz)

\* the value kept in ArraySz, given the sizes of the last and of the
\* second-to-last layer
KeptArraySz(LastSz, SecSz) == SecSz

\* the text written between the second-to-last bracket pair
MergedExtentText(LastSz, Sz) == NumText(LastSz * Sz)

rewriteOneVarDecl(p, VD, Ty) ==
  IF VD.dim = 0
  THEN /\ Abort("Invalid ArrayType!")
       /\ UNCHANGED <<ArraySz, declOut, szWrites, pos>>
  ELSE
  LET TyVec == getArrayDimensionAndTypes(VD, Ty)
      Dim == Len(TyVec)
      BPVector == getBracketLocPairs(Dim)
  IN
  IF ~(Len(BPVector) > 1)
  THEN /\ Abort("Invalid Bracket Pairs!")
       /\ UNCHANGED <<ArraySz, declOut, szWrites, pos>>
  ELSE
  LET CstArrayTy == TyVec[Dim]
      SecArrayTy == TyVec[Dim - 1]
      LastSz == getConstArraySize(CstArrayTy)
      SecSz == getConstArraySize(SecArrayTy)
  IN
  IF CstArrayTy.k # "Constant"
  THEN /\ Abort("Non ConstantArrayType!")
       /\ UNCHANGED <<ArraySz, declOut, szWrites, pos>>
  ELSE IF SecArrayTy.k = "Incomplete"
  THEN \* We keep incomplete array
       /\ declOut' = [declOut EXCEPT ![p] = RemoveLast(BPVector)]
       /\ pos' = p + 1
       /\ UNCHANGED <<ArraySz, szWrites, pc, assertMsg>>
  ELSE IF SecArrayTy.k # "Constant"
  THEN /\ Abort("Non ConstantArrayType!")
       /\ UNCHANGED <<ArraySz, declOut, szWrites, pos>>
  ELSE \* Keep this value, which is needed for rewriting ArraySubscriptExpr
       /\ ArraySz' = KeptArraySz(LastSz, SecSz)
       /\ szWrites' = szWrites + 1
       /\ declOut' = [declOut EXCEPT ![p] =
             [RemoveLast(BPVector) EXCEPT ![Dim - 1] =
                MergedExtentText(LastSz, KeptArraySz(LastSz, SecSz))]]
       /\ pos' = p + 1
       /\ UNCHANGED <<pc, assertMsg>>

\* rewrite visitor's VisitVarDecl on the next VarDecl node of the unit; Ty is
\* the target entity's type, drawn the first time the pass inspects it
VisitVarDecl(Ty) ==
  /\ pc = "rewrite"
  /\ pos <= Len(tu)
  /\ IF tu[pos].canon # TheVarDecl
     THEN /\ Ty = <<>>
          /\ pos' = pos + 1
          /\ UNCHANGED <<ArraySz, declOut, szWrites, pc, assertMsg, targetTy>>
     ELSE /\ IF targetTy # <<>> THEN Ty = targetTy ELSE Ty # <<>>
          /\ targetTy' = Ty
          /\ rewriteOneVarDecl(pos, tu[pos], Ty)
  /\ ase' = NoChain
  /\ idx' = <<>>
  /\ UNCHANGED <<TransformationCounter, QueryInstanceOnly, ValidInstanceNum,
                 VisitedVarDecls, TheVarDecl, TransError, tu, szReads,
                 readUnassigned, declsLeft>>

-----------------------------------------------------------------------------
(* Rewrite traversal: subscript expressions *)

\* index expressions: integer or character literals, or anything else
Literal(n) == [lit |-> TRUE, val |-> n]
NonLiteral == [lit |-> FALSE, val |-> 0]
Hidden == [lit |-> FALSE, val |-> -1]   \* not inspected by the pass

\* replacement texts
NoText == [form |-> "none", val |-> 0, sec |-> Hidden, last |-> Hidden]
LitText(n) == [form |-> "lit", val |-> n, sec |-> Hidden, last |-> Hidden]
MulAddText(SecE, sz, LastE) ==
  [form |-> "muladd", val |-> sz, sec |-> SecE, last |-> LastE]

Untouched == [e |-> Hidden, removed |-> 0, replaced |-> 0, new |-> NoText]

BaseKinds == {"DeclRefVar", "DeclRefNonVar", "Other"}

\* number of array layers of entity v (the same in all its declarations)
DimOf(v) == tu[CHOOSE i \in 1..Len(tu) : tu[i].canon = v].dim

isIntegerExpr(E) == E.lit

getIndexAsInteger(E) == E.val

\* the index expressions of the subscript node with m indices, as positions
\* in the chain: the last index comes first
getBaseExprAndIdxExprs(m) == [i \in 1..m |-> m + 1 - i]

\* variant: the two indices change places
NewIdxValue_Swapped(SecIdx, sz, LastIdx) == LastIdx * sz + SecIdx

NewIdxValue(SecIdx, sz, LastIdx) == SecIdx * sz + LastIdx

\* ix: the chain's indices with the edits made so far
rewriteSubscriptExpr(IdxPos, ix, LastE, SecE, sz) ==
  LET LastP == IdxPos[1]
      SecP == IdxPos[2]
      NewIdx == NewIdxValue(getIndexAsInteger(SecE), sz, getIndexAsInteger(LastE))
      NewText == IF isIntegerExpr(LastE) /\ isIntegerExpr(SecE)
                 THEN LitText(NewIdx)
                 ELSE MulAddText(SecE, sz, LastE)
  IN [ix EXCEPT
        ![LastP] = [@ EXCEPT !.e = LastE, !.removed = @ + 1],
        ![SecP] = [@ EXCEPT !.e = SecE, !.replaced = @ + 1, !.new = NewText]]

\* does the call on the subscript node with m indices of chain c reach
\* rewriteSubscriptExpr
Rewrites(c, m) ==
  LET IsScalarOrRecord == c.base # "DeclRefVar" \/ m >= DimOf(c.v)
      IdxPos == getBaseExprAndIdxExprs(m)
  IN
  IF ~IsScalarOrRecord THEN FALSE
  ELSE IF Len(IdxPos) <= 1 THEN FALSE
  ELSE IF c.base = "Other" THEN FALSE
  ELSE IF c.base = "DeclRefNonVar" THEN FALSE
  ELSE IF c.v # TheVarDecl THEN FALSE
  ELSE TRUE

\* the subscript node with m indices of chain c
handleOneArraySubscriptExpr(c, m, ix, LastE, SecE, sz) ==
  IF Rewrites(c, m)
  THEN rewriteSubscriptExpr(getBaseExprAndIdxExprs(m), ix, LastE, SecE, sz)
  ELSE ix

\* what a read of ArraySz yields
ReadArraySz == IF ArraySz = Unassigned THEN IndeterminateSz ELSE {ArraySz}

\* a subscript chain that can occur at this point of the unit: on a variable
\* declared before, with at most one index beyond its dimensions (an array
\* of pointers), or on another base expression
WellFormedChain(c) ==
  /\ c.len >= 1
  /\ c.node = c.len
  /\ IF c.base = "DeclRefVar"
     THEN /\ c.v \in Declared(SubSeq(tu, 1, pos - 1))
          /\ c.len <= DimOf(c.v) + 1
     ELSE /\ c.v = NULL
          /\ c.len <= 2

\* the index expression at position p: the one seen before, else E
Known(ix, p, E) == (p >= 1 /\ ix[p].e # Hidden) => E = ix[p].e

\* rewrite visitor's VisitArraySubscriptExpr on the next subscript node: the
\* outermost node of a new chain c, or the node nested in the base of the one
\* visited before.  LastE and SecE are its last two index expressions.  A
\* node on which the handler returns early has no nested node on which it
\* does not (fewer indices, same base): the nodes nested in it are visited
\* like the nodes of a new chain.
VisitArraySubscriptExpr(c, LastE, SecE, sz) ==
  /\ pc = "rewrite"
  /\ IF ase = NoChain THEN WellFormedChain(c) ELSE c = ase
  /\ LET m == c.node
         ix == IF ase = NoChain THEN [i \in 1..c.len |-> Untouched] ELSE idx
     IN
     /\ IF Rewrites(c, m)
        THEN /\ sz \in ReadArraySz
             /\ Known(ix, m, LastE)
             /\ Known(ix, m - 1, SecE)
             /\ szReads' = szReads \cup {sz}
             /\ readUnassigned' = (readUnassigned \/ ArraySz = Unassigned)
             /\ ArraySz' = sz
        ELSE /\ sz = NULL
             /\ LastE = Hidden
             /\ SecE = Hidden
             /\ UNCHANGED <<szReads, readUnassigned, ArraySz>>
     /\ IF ~Rewrites(c, m)
        THEN /\ ase' = NoChain
             /\ idx' = <<>>
        ELSE /\ ase' = [c EXCEPT !.node = m - 1]
             /\ idx' = handleOneArraySubscriptExpr(c, m, ix, LastE, SecE, sz)
  /\ UNCHANGED <<TransformationCounter, QueryInstanceOnly, ValidInstanceNum,
                 VisitedVarDecls, TheVarDecl, TransError, pc, assertMsg, tu,
                 targetTy, pos, declOut, szWrites, declsLeft>>

\* the subscript nodes the traversal can visit next: the node nested in the
\* one visited before, or the outermost node of any chain of up to D + 1
\* indices
NodesAt(D) ==
  IF ase # NoChain THEN {ase}
  ELSE {c \in [v : Declared(SubSeq(tu, 1, pos - 1)), base : {"DeclRefVar"},
               len : 1..(D + 1), node : 1..(D + 1)]
               \cup [v : {NULL}, base : BaseKinds \ {"DeclRefVar"},
                     len : 1..2, node : 1..2] :
          WellFormedChain(c)}

\* the expressions the index at position p of node c can be, with literal
\* values in L
IdxAt(c, p, L) ==
  IF ~Rewrites(c, c.node) THEN {Hidden}
  ELSE IF ase # NoChain /\ idx[p].e # Hidden THEN {idx[p].e}
  ELSE {Literal(n) : n \in L} \cup {NonLiteral}

-----------------------------------------------------------------------------
(* The pass over every translation unit within the bounds *)

CollectFrom(Nodes) == \E VD \in Nodes : HandleTopLevelDecl(VD)

\* the types the next VarDecl node of the traversal can turn out to have
TypesAt(E) ==
  IF tu[pos].canon # TheVarDecl THEN {<<>>}
  ELSE IF targetTy # <<>> THEN {targetTy}
  ELSE TypesOf(tu[pos], E)

RewriteDeclWith(E) ==
  /\ pc = "rewrite"
  /\ pos <= Len(tu)
  /\ \E Ty \in TypesAt(E) : VisitVarDecl(Ty)

RewriteSubscriptWith(D, L) ==
  /\ pc = "rewrite"
  /\ \E c \in NodesAt(D) :
       \E sz \in (IF Rewrites(c, c.node) THEN ReadArraySz ELSE {NULL}) :
         \E LastE \in IdxAt(c, c.node, L), SecE \in IdxAt(c, c.node - 1, L) :
           VisitArraySubscriptExpr(c, LastE, SecE, sz)

Collect == CollectFrom(VarDeclNodes(MaxDim))

RewriteDecl == RewriteDeclWith(Extents)

RewriteSubscript == RewriteSubscriptWith(MaxDim, Literals)

EndOfUnit == \E e \in BOOLEAN : TraversalEnd(e)

Next ==
  \/ Collect
  \/ HandleTranslationUnit
  \/ RewriteDecl
  \/ RewriteSubscript
  \/ EndOfUnit

Spec == Init /\ [][Next]_vars

-----------------------------------------------------------------------------
(* The pass over the units of the documented examples *)

DocCollect == CollectFrom(DocNodes)

DocRewriteDecl == RewriteDeclWith(DocExtents)

DocRewriteSubscript == RewriteSubscriptWith(MaxDim, DocLiterals)

DocNext ==
  \/ DocCollect
  \/ HandleTranslationUnit
  \/ DocRewriteDecl
  \/ DocRewriteSubscript
  \/ EndOfUnit

SpecDoc == Init /\ [][DocNext]_vars

-----------------------------------------------------------------------------
(* Properties *)

\* the canonical declarations of s that are arrays of two or more dimensions
\* whose outermost layer is neither dependently nor variably sized, in
\* first-visit order
RECURSIVE EligibleOrder(_)
EligibleOrder(s) ==
  IF s = <<>> THEN <<>>
  ELSE LET r == EligibleOrder(RemoveLast(s))
           d == s[Len(s)]
       IN IF /\ d.dim >= 2
             /\ d.outer \in {"Constant", "Incomplete"}
             /\ d.canon \notin {r[i] : i \in 1..Len(r)}
          THEN Append(r, d.canon)
          ELSE r

\* nothing has been edited
NoEdits ==
  /\ \A p \in 1..Len(declOut) : declOut[p] = <<>>
  /\ ase = NoChain
  /\ idx = <<>>
  /\ ArraySz = Unassigned
  /\ szWrites = 0

\* the declarations of the target in the unit
TargetDecls == {p \in 1..Len(tu) : tu[p].canon = TheVarDecl}

\* the last visitor call rewrote the subscript node with ase.node + 1 indices
JustRewrote ==
  /\ pc = "rewrite"
  /\ ase # NoChain
  /\ Rewrites(ase, ase.node + 1)

\* C1: on a target whose dimensions are all Fixed, the fully indexed chain
\* with literal last two indices gets, in place of its second-to-last index,
\* the literal i(k-1) * dk + ik, dk being the extent of the removed (last)
\* dimension.
C1_LinearizedWithLastExtent ==
  (/\ JustRewrote
   /\ ase.node + 1 = DimOf(TheVarDecl)
   /\ \A p \in TargetDecls : tu[p].outer = "Constant"
   /\ idx[ase.node + 1].e.lit
   /\ idx[ase.node].e.lit)
  => /\ idx[ase.node + 1].removed = 1
     /\ idx[ase.node].new =
          LitText(idx[ase.node].e.val * targetTy[2].sz + idx[ase.node + 1].e.val)

\* C2: a rewritten target declaration with dimensions [d0..dk] has the
\* brackets [d0..d(k-2)] unchanged, one bracket pair fewer, and the product
\* d(k-1)*dk in the new last pair, or that pair left as it was (empty) when
\* the second-to-last dimension is Incomplete.
C2_DeclReduced ==
  \A p \in TargetDecls :
    (pc \in {"rewrite", "done"} /\ p < pos) =>
      LET D == tu[p].dim
          out == declOut[p]
      IN /\ Len(out) = D - 1
         /\ \A i \in 1..(D - 2) : out[i] = OrigText(i)
         /\ out[D - 1] = IF D = 2 /\ tu[p].outer = "Incomplete"
                         THEN OrigText(D - 1)
                         ELSE NumText(targetTy[1].sz * targetTy[2].sz)

C2_Witness ==
  \E p \in TargetDecls :
    /\ pc = "rewrite"
    /\ tu[p].dim = 3
    /\ declOut[p] # <<>>
    /\ targetTy[1].sz # targetTy[2].sz

\* the counters agree with the declarations visited so far
SelectionInv ==
  /\ ValidInstanceNum = Len(EligibleOrder(tu))
  /\ (TransformationCounter >= 1 /\ TransformationCounter <= ValidInstanceNum)
       => TheVarDecl = EligibleOrder(tu)[TransformationCounter]

\* C3: after any sequence of visited declarations ValidInstanceNum is the
\* number of distinct eligible canonical declarations, TheVarDecl is the n-th
\* of them in first-visit order once n of them have been seen, and TheVarDecl
\* never changes once set.
C3_TargetSelection ==
  /\ []SelectionInv
  /\ [][TheVarDecl # NULL => TheVarDecl' = TheVarDecl]_vars

C3_Witness ==
  /\ TransformationCounter = 2
  /\ TheVarDecl = 2
  /\ ValidInstanceNum = 2
  /\ pc = "collect"

\* C4: an instance number above the number of eligible declarations ends
\* HandleTranslationUnit with TransMaxInstanceError, before the rewrite
\* traversal: nothing is edited and no assertion fails.
C4_Exhausted ==
  (/\ ~QueryInstanceOnly
   /\ pc # "collect"
   /\ TransformationCounter > Len(EligibleOrder(tu)))
  => /\ pc = "done"
     /\ TransError = "TransMaxInstanceError"
     /\ assertMsg = "none"
     /\ NoEdits

C4_Witness ==
  /\ pc = "done"
  /\ TransError = "TransMaxInstanceError"
  /\ Len(EligibleOrder(tu)) = 1
  /\ TransformationCounter = 2

\* C5: instance number 0 ends with TransMaxInstanceError, nothing edited and
\* no assertion failed, whatever the unit declares.
C5_ZeroExhausted ==
  (/\ ~QueryInstanceOnly
   /\ pc # "collect"
   /\ TransformationCounter = 0)
  => /\ pc = "done"
     /\ TransError = "TransMaxInstanceError"
     /\ assertMsg = "none"
     /\ NoEdits

\* C6: no layer of a declaration selected as the target is dependently or
\* variably sized, and rewriteOneVarDecl fails none of its assertions.
C6_EligibilitySound ==
  /\ assertMsg \notin {"Invalid ArrayType!", "Invalid Bracket Pairs!",
                       "Non ConstantArrayType!"}
  /\ targetTy # <<>> =>
       \A i \in 1..2 : targetTy[i].k \notin {"Variable", "DependentSized"}

\* C7: for int a[][3] accessed as a[5][2] the declaration loses its last
\* bracket pair and keeps the empty one, the access becomes a[11], and the
\* extent used was assigned by the declaration rewrite.
C7_IncompleteExample ==
  (/\ JustRewrote
   /\ DimOf(TheVarDecl) = 2
   /\ \A p \in TargetDecls : tu[p].outer = "Incomplete"
   /\ targetTy[2] = ConstantDim(3)
   /\ ase.len = 2
   /\ idx[1].e = Literal(5)
   /\ idx[2].e = Literal(2))
  => /\ \A p \in TargetDecls : p < pos => declOut[p] = <<OrigText(1)>>
     /\ idx[2].removed = 1
     /\ idx[1].new = LitText(11)
     /\ ~readUnassigned

\* C8: for int a[2][3][4] accessed as a[1][2][3] the declaration becomes
\* a[2][12] and the access a[1][9].
C8_DocExample ==
  (/\ JustRewrote
   /\ DimOf(TheVarDecl) = 3
   /\ targetTy = <<ConstantDim(3), ConstantDim(4)>>
   /\ ase.len = 3
   /\ ase.node = 2
   /\ idx[2].e = Literal(2)
   /\ idx[3].e = Literal(3))
  => /\ \A p \in TargetDecls : p < pos => declOut[p] = <<OrigText(1), NumText(12)>>
     /\ idx[3].removed = 1
     /\ idx[3].replaced = 0
     /\ idx[2].new = LitText(9)
     /\ idx[2].removed = 0
     /\ idx[1] = Untouched

C8_Witness ==
  /\ JustRewrote
  /\ DimOf(TheVarDecl) = 3
  /\ targetTy = <<ConstantDim(3), ConstantDim(4)>>
  /\ ase.len = 3
  /\ ase.node = 2
  /\ idx[2].e = Literal(2)
  /\ idx[3].e = Literal(3)
  /\ idx[2].new = LitText(9)
  /\ declOut[1] = <<OrigText(1), NumText(12)>>

\* C9: a chain on the target loses exactly one index, the indices merged are
\* those of the array's last two dimensions, no index is edited by more than
\* one call, and an under-indexed chain is left untouched.
C9_OneIndexRemoved ==
  (/\ pc = "rewrite"
   /\ ase # NoChain
   /\ ase.base = "DeclRefVar"
   /\ ase.v = TheVarDecl)
  => LET D == DimOf(TheVarDecl)
     IN /\ \A i \in 1..ase.len : idx[i].removed + idx[i].replaced <= 1
        /\ \A L \in 1..(D - 1) :
             ~Rewrites([v |-> TheVarDecl, base |-> "DeclRefVar",
                        len |-> L, node |-> L], L)
        /\ ~Rewrites(ase, ase.node) =>
             /\ {i \in 1..ase.len : idx[i].removed > 0} = {D}
             /\ {i \in 1..ase.len : idx[i].replaced > 0} = {D - 1}

\* C10: the extent read by the subscript rewrites of one invocation was
\* assigned by an earlier declaration rewrite, is assigned once only, and is
\* the same for all of them.
C10_ExtentAssignedOnce ==
  szReads # {} =>
    /\ ~readUnassigned
    /\ szWrites = 1
    /\ Cardinality(szReads) = 1

====
